---- MODULE Spec2Model ----
(***************************************************************************)
(* Model of the UVM instruction codec (Command.to_binary / from_binary)    *)
(* and of the virtual machine (VirtualMachine) of src/uvm_core.py.         *)
(*                                                                         *)
(* Bytes objects are sequences of integers 0..255.  A Python integer that  *)
(* may exceed 31 bits (the packed instruction word) is never built as one  *)
(* number: it is read and written bit by bit, so no arithmetic of the      *)
(* model leaves the range of the model checker's integers.                 *)
(***************************************************************************)
EXTENDS Integers, Sequences, FiniteSets, TLC

VARIABLES
    registers,     \* VirtualMachine.registers   : 0..31 -> Int
    data_memory,   \* VirtualMachine.data_memory : 0..MemSize-1 -> Int
    program,       \* VirtualMachine.program     : Seq(Command)
    pc,            \* VirtualMachine.pc
    lastCall,      \* the last call made on the machine, its arguments and outcome
    source,        \* assembler: the instruction sequence being assembled
    assembled,     \* assembler: the program binary made of its to_binary records
    cmdIn,         \* codec: the Command handed to to_binary
    binOut,        \* codec: the outcome of to_binary
    binIn,         \* codec: the bytes handed to from_binary
    cmdOut         \* codec: the outcome of from_binary

vmVars == <<registers, data_memory, program, pc, lastCall>>
codecVars == <<source, assembled, cmdIn, binOut, binIn, cmdOut>>
vars == <<registers, data_memory, program, pc, lastCall,
          source, assembled, cmdIn, binOut, binIn, cmdOut>>

----------------------------------------------------------------------------
(* Bounds of the model *)

\* data_mem_size handed to VirtualMachine(...)
MemSize == 3
\* longest instruction sequence assembled into a program binary
MaxProgLen == 2
\* largest max_steps handed to run
MaxSteps == 2
\* the largest number of bytes after the first in a raw byte string
MaxTail == 7

----------------------------------------------------------------------------
(* Opcode (enum values) *)

LOAD_CONST == 44
READ_MEM == 120
WRITE_MEM == 34
SHR == 37

Opcodes == {LOAD_CONST, READ_MEM, WRITE_MEM, SHR}

\* number of registers of the machine
NumRegs == 32

\* Command(opcode, args, raw_bytes)
Command(op, a, b, raw) == [opcode |-> op, args |-> <<a, b>>, raw_bytes |-> raw]

NoCmd == [opcode |-> 0, args |-> <<>>, raw_bytes |-> <<>>]

----------------------------------------------------------------------------
(* Integer and bytes helpers *)

Min(a, b) == IF a <= b THEN a ELSE b

\* bit i of the non-negative integer x (x < 2^31)
IntBit(x, i) == IF i < 0 \/ i > 30 THEN 0 ELSE (x \div 2^i) % 2

\* bit i of the little-endian integer held by the bytes b (int.from_bytes(b, 'little'))
BytesBit(b, i) == IF (i \div 8) + 1 > Len(b) THEN 0 ELSE (b[(i \div 8) + 1] \div 2^(i % 8)) % 2

RECURSIVE SumBits(_, _, _)
\* (int.from_bytes(b, 'little') >> s) & (2^w - 1), for w <= 30
SumBits(b, s, w) ==
    IF w = 0 THEN 0
    ELSE SumBits(b, s, w - 1) + BytesBit(b, s + w - 1) * 2^(w - 1)

ShiftMask(b, s, w) == SumBits(b, s, w)

\* bytes.ljust(n, b'\x00')
Ljust(b, n) == IF Len(b) >= n THEN b ELSE b \o [i \in 1..(n - Len(b)) |-> 0]

\* b[:n]
Take(b, n) == SubSeq(b, 1, Min(n, Len(b)))

\* b[i:i+n] for a 0-based offset i
Slice(b, i, n) == SubSeq(b, i + 1, Min(i + n, Len(b)))

\* bit i of (a << 12) | (b << 7) | c, for non-negative a, b, c
PackedBit(a, b, c, i) ==
    IF IntBit(a, i - 12) = 1 \/ IntBit(b, i - 7) = 1 \/ IntBit(c, i) = 1 THEN 1 ELSE 0

\* byte k (0-based) of the little-endian form of (a << 12) | (b << 7) | c
PackedByte(a, b, c, k) ==
    PackedBit(a, b, c, 8*k) + 2 * PackedBit(a, b, c, 8*k + 1)
    + 4 * PackedBit(a, b, c, 8*k + 2) + 8 * PackedBit(a, b, c, 8*k + 3)
    + 16 * PackedBit(a, b, c, 8*k + 4) + 32 * PackedBit(a, b, c, 8*k + 5)
    + 64 * PackedBit(a, b, c, 8*k + 6) + 128 * PackedBit(a, b, c, 8*k + 7)

\* the 8 low bytes of value = (a << 12) | (b << 7) | c; value < 2^43 < 2^64
PackedValue(a, b, c) == [k \in 1..8 |-> PackedByte(a, b, c, k - 1)]

\* struct.pack of an unsigned little-endian format of n bytes ('<H' 2, '<I' 4,
\* '<Q' 8) applied to value = (a << 12) | (b << 7) | c: struct.error when the value
\* is negative (some operand is) or does not fit n bytes
StructPack(n, a, b, c) ==
    LET v == PackedValue(a, b, c) IN
    IF a < 0 \/ b < 0 \/ c < 0 THEN [err |-> "struct.error", bytes |-> <<>>]
    ELSE IF \E k \in (n + 1)..8 : v[k] # 0 THEN [err |-> "struct.error", bytes |-> <<>>]
    ELSE [err |-> "none", bytes |-> SubSeq(v, 1, n)]

----------------------------------------------------------------------------
(* Command.to_binary *)

\* struct.pack('<I', value)[:5]
PackLoadConst(reg, const) ==
    LET p == StructPack(4, const, reg, LOAD_CONST) IN
    [err |-> p.err, bytes |-> Take(p.bytes, 5)]

\* struct.pack('<H', value)[:3]
PackRegPair(op, first, second) ==
    LET p == StructPack(2, second, first, op) IN
    [err |-> p.err, bytes |-> Take(p.bytes, 3)]

\* struct.pack('<Q', value)[:6]
PackShr(reg, mem_addr) ==
    LET p == StructPack(8, mem_addr, reg, SHR) IN
    [err |-> p.err, bytes |-> Take(p.bytes, 6)]

to_binary(cmd) ==
    IF cmd.opcode = LOAD_CONST THEN PackLoadConst(cmd.args[1], cmd.args[2])
    ELSE IF cmd.opcode = READ_MEM THEN PackRegPair(READ_MEM, cmd.args[1], cmd.args[2])
    ELSE IF cmd.opcode = WRITE_MEM THEN PackRegPair(WRITE_MEM, cmd.args[1], cmd.args[2])
    ELSE IF cmd.opcode = SHR THEN PackShr(cmd.args[1], cmd.args[2])
    ELSE [err |-> "none", bytes |-> <<>>]

----------------------------------------------------------------------------
(* Command.from_binary *)

\* the LOAD_CONST decode without the & 0xFFFFFF mask
DecodeLoadConst_NoMask(binary) ==
    LET b == Ljust(binary, 5) IN
    Command(LOAD_CONST, ShiftMask(Take(b, 5), 7, 5), ShiftMask(Take(b, 5), 12, 28), Take(b, 5))

DecodeLoadConst(binary) ==
    LET b == Ljust(binary, 5) IN
    Command(LOAD_CONST, ShiftMask(Take(b, 5), 7, 5), ShiftMask(Take(b, 5), 12, 24), Take(b, 5))

\* the READ_MEM / WRITE_MEM decode with the mask 0x3F on the second operand
DecodeRegPair_WideMask(op, binary) ==
    LET b == Ljust(binary, 3) IN
    Command(op, ShiftMask(Take(b, 3), 7, 5), ShiftMask(Take(b, 3), 12, 6), Take(b, 3))

DecodeRegPair(op, binary) ==
    LET b == Ljust(binary, 3) IN
    Command(op, ShiftMask(Take(b, 3), 7, 5), ShiftMask(Take(b, 3), 12, 5), Take(b, 3))

DecodeShr(binary) ==
    LET b == Ljust(binary, 6) IN
    Command(SHR, ShiftMask(Take(b, 6), 7, 5), ShiftMask(Take(b, 6), 12, 30), Take(b, 6))

\* from_binary comparing the whole first byte with the opcode codes
from_binary_NoOpcodeMask(binary) ==
    IF Len(binary) = 0 THEN [err |-> "ValueError", cmd |-> NoCmd]
    ELSE LET opcode_val == binary[1] IN
         IF opcode_val = LOAD_CONST THEN [err |-> "none", cmd |-> DecodeLoadConst(binary)]
         ELSE IF opcode_val = READ_MEM THEN [err |-> "none", cmd |-> DecodeRegPair(READ_MEM, binary)]
         ELSE IF opcode_val = WRITE_MEM THEN [err |-> "none", cmd |-> DecodeRegPair(WRITE_MEM, binary)]
         ELSE IF opcode_val = SHR THEN [err |-> "none", cmd |-> DecodeShr(binary)]
         ELSE [err |-> "ValueError", cmd |-> NoCmd]

from_binary(binary) ==
    IF Len(binary) = 0 THEN [err |-> "ValueError", cmd |-> NoCmd]
    ELSE LET opcode_val == binary[1] % 128 IN
         IF opcode_val = LOAD_CONST THEN [err |-> "none", cmd |-> DecodeLoadConst(binary)]
         ELSE IF opcode_val = READ_MEM THEN [err |-> "none", cmd |-> DecodeRegPair(READ_MEM, binary)]
         ELSE IF opcode_val = WRITE_MEM THEN [err |-> "none", cmd |-> DecodeRegPair(WRITE_MEM, binary)]
         ELSE IF opcode_val = SHR THEN [err |-> "none", cmd |-> DecodeShr(binary)]
         ELSE [err |-> "ValueError", cmd |-> NoCmd]

----------------------------------------------------------------------------
(* Python list indexing *)

\* whether l[i] is defined for a list of n elements (negative i counts from the end)
IndexOk(n, i) == -n <= i /\ i < n

\* the 0-based position l[i] names
Norm(n, i) == IF i < 0 THEN i + n ELSE i

\* x >> s for s >= 0 (floor division by 2^s; x stays below 2^31 in magnitude)
ShiftRightInt(x, s) == IF s > 30 THEN (IF x < 0 THEN -1 ELSE 0) ELSE x \div 2^s

----------------------------------------------------------------------------
(* VirtualMachine *)

ZeroRegisters == [r \in 0..(NumRegs - 1) |-> 0]

ZeroMemory == [a \in 0..(MemSize - 1) |-> 0]

\* len(self.data_memory)
MemLen(mem) == Cardinality(DOMAIN mem)

\* VirtualMachine.__init__
NewMachine == [registers |-> ZeroRegisters, data_memory |-> ZeroMemory, program |-> <<>>, pc |-> 0]

\* reset without the re-creation of data_memory
reset_KeepsMemory(st) == [st EXCEPT !.registers = ZeroRegisters, !.pc = 0]

\* VirtualMachine.reset
reset(st) ==
    [st EXCEPT !.registers = ZeroRegisters,
               !.data_memory = [a \in 0..(MemLen(st.data_memory) - 1) |-> 0],
               !.pc = 0]

\* the record width load_program derives from the opcode code; 0 stands for the
\* raise of "Unknown opcode in binary"
CmdLen(opcode_val) ==
    IF opcode_val = LOAD_CONST THEN 5
    ELSE IF opcode_val \in {READ_MEM, WRITE_MEM} THEN 3
    ELSE IF opcode_val = SHR THEN 6
    ELSE 0

RECURSIVE LoadLoop_DropsPartial(_, _, _)
\* the loop of load_program stopping at a record the stream does not hold in full
LoadLoop_DropsPartial(binary_data, i, prog) ==
    IF i >= Len(binary_data) THEN [err |-> "none", program |-> prog]
    ELSE LET opcode_val == binary_data[i + 1] % 128
             cmd_len == CmdLen(opcode_val)
         IN  IF cmd_len = 0 THEN [err |-> "ValueError", program |-> prog]
             ELSE IF i + cmd_len > Len(binary_data) THEN [err |-> "none", program |-> prog]
             ELSE LET d == from_binary(Slice(binary_data, i, cmd_len))
                  IN  IF d.err # "none" THEN [err |-> d.err, program |-> prog]
                      ELSE LoadLoop_DropsPartial(binary_data, i + cmd_len, Append(prog, d.cmd))

RECURSIVE LoadLoop(_, _, _)
\* the while loop of load_program: i is the offset, prog is self.program so far
LoadLoop(binary_data, i, prog) ==
    IF i >= Len(binary_data) THEN [err |-> "none", program |-> prog]
    ELSE LET opcode_val == binary_data[i + 1] % 128
             cmd_len == CmdLen(opcode_val)
         IN  IF cmd_len = 0 THEN [err |-> "ValueError", program |-> prog]
             ELSE LET cmd_bytes == Ljust(Slice(binary_data, i, cmd_len), cmd_len)
                      d == from_binary(cmd_bytes)
                  IN  IF d.err # "none" THEN [err |-> d.err, program |-> prog]
                      ELSE LoadLoop(binary_data, i + cmd_len, Append(prog, d.cmd))

\* VirtualMachine.load_program: self.program.clear(), then the loop
load_program(binary_data) == LoadLoop(binary_data, 0, <<>>)

\* execute_command with SHR shifting by its address operand, not by the cell there
execute_command_ShiftsByOperand(cmd, regs, mem) ==
    LET a == cmd.args[1]
        b == cmd.args[2]
        M == MemLen(mem)
        done(r, m) == [err |-> "none", registers |-> r, data_memory |-> m]
        fail(e) == [err |-> e, registers |-> regs, data_memory |-> mem]
    IN  IF cmd.opcode = LOAD_CONST THEN
            IF ~IndexOk(NumRegs, a) THEN fail("IndexError")
            ELSE done([regs EXCEPT ![Norm(NumRegs, a)] = b], mem)
        ELSE IF cmd.opcode = READ_MEM THEN
            IF ~IndexOk(NumRegs, a) THEN fail("IndexError")
            ELSE LET mem_addr == regs[Norm(NumRegs, a)] IN
                 IF ~IndexOk(M, mem_addr) THEN fail("IndexError")
                 ELSE IF ~IndexOk(NumRegs, b) THEN fail("IndexError")
                 ELSE done([regs EXCEPT ![Norm(NumRegs, b)] = mem[Norm(M, mem_addr)]], mem)
        ELSE IF cmd.opcode = WRITE_MEM THEN
            IF ~IndexOk(NumRegs, b) THEN fail("IndexError")
            ELSE LET mem_addr == regs[Norm(NumRegs, b)] IN
                 IF ~IndexOk(NumRegs, a) THEN fail("IndexError")
                 ELSE IF ~IndexOk(M, mem_addr) THEN fail("IndexError")
                 ELSE done(regs, [mem EXCEPT ![Norm(M, mem_addr)] = regs[Norm(NumRegs, a)]])
        ELSE IF cmd.opcode = SHR THEN
            IF ~IndexOk(M, b) THEN fail("IndexError")
            ELSE IF ~IndexOk(NumRegs, a) THEN fail("IndexError")
            ELSE IF b < 0 THEN fail("ValueError")
            ELSE done([regs EXCEPT ![Norm(NumRegs, a)] =
                           ShiftRightInt(regs[Norm(NumRegs, a)], b)], mem)
        ELSE done(regs, mem)

\* VirtualMachine.execute_command on registers regs and memory mem
execute_command(cmd, regs, mem) ==
    LET a == cmd.args[1]
        b == cmd.args[2]
        M == MemLen(mem)
        done(r, m) == [err |-> "none", registers |-> r, data_memory |-> m]
        fail(e) == [err |-> e, registers |-> regs, data_memory |-> mem]
    IN  IF cmd.opcode = LOAD_CONST THEN
            IF ~IndexOk(NumRegs, a) THEN fail("IndexError")
            ELSE done([regs EXCEPT ![Norm(NumRegs, a)] = b], mem)
        ELSE IF cmd.opcode = READ_MEM THEN
            IF ~IndexOk(NumRegs, a) THEN fail("IndexError")
            ELSE LET mem_addr == regs[Norm(NumRegs, a)] IN
                 IF ~IndexOk(M, mem_addr) THEN fail("IndexError")
                 ELSE IF ~IndexOk(NumRegs, b) THEN fail("IndexError")
                 ELSE done([regs EXCEPT ![Norm(NumRegs, b)] = mem[Norm(M, mem_addr)]], mem)
        ELSE IF cmd.opcode = WRITE_MEM THEN
            IF ~IndexOk(NumRegs, b) THEN fail("IndexError")
            ELSE LET mem_addr == regs[Norm(NumRegs, b)] IN
                 IF ~IndexOk(NumRegs, a) THEN fail("IndexError")
                 ELSE IF ~IndexOk(M, mem_addr) THEN fail("IndexError")
                 ELSE done(regs, [mem EXCEPT ![Norm(M, mem_addr)] = regs[Norm(NumRegs, a)]])
        ELSE IF cmd.opcode = SHR THEN
            IF ~IndexOk(M, b) THEN fail("IndexError")
            ELSE LET shift_amount == mem[Norm(M, b)] IN
                 IF ~IndexOk(NumRegs, a) THEN fail("IndexError")
                 ELSE IF shift_amount < 0 THEN fail("ValueError")
                 ELSE done([regs EXCEPT ![Norm(NumRegs, a)] =
                                ShiftRightInt(regs[Norm(NumRegs, a)], shift_amount)], mem)
        ELSE done(regs, mem)

\* execute_step with self.pc += 1 moved ahead of the halted test
execute_step_AdvanceWhenHalted(st) ==
    IF st.pc >= Len(st.program) THEN [ret |-> "False", st |-> [st EXCEPT !.pc = st.pc + 1]]
    ELSE LET r == execute_command(st.program[st.pc + 1], st.registers, st.data_memory)
         IN  IF r.err # "none" THEN [ret |-> r.err, st |-> [st EXCEPT !.pc = st.pc + 1]]
             ELSE [ret |-> "True",
                   st |-> [st EXCEPT !.registers = r.registers,
                                     !.data_memory = r.data_memory,
                                     !.pc = st.pc + 1]]

\* execute_step with the halted test written self.pc > len(self.program): at
\* pc = len(program) the fetch self.program[self.pc] raises IndexError
execute_step_HaltedTestOffByOne(st) ==
    IF st.pc > Len(st.program) THEN [ret |-> "False", st |-> st]
    ELSE IF st.pc = Len(st.program) THEN [ret |-> "IndexError", st |-> st]
    ELSE LET r == execute_command(st.program[st.pc + 1], st.registers, st.data_memory)
         IN  IF r.err # "none" THEN [ret |-> r.err, st |-> st]
             ELSE [ret |-> "True",
                   st |-> [st EXCEPT !.registers = r.registers,
                                     !.data_memory = r.data_memory,
                                     !.pc = st.pc + 1]]

\* execute_step with self.pc += 1 ahead of self.execute_command(cmd): a failing
\* instruction leaves pc advanced
execute_step_PcBeforeCommand(st) ==
    IF st.pc >= Len(st.program) THEN [ret |-> "False", st |-> st]
    ELSE LET r == execute_command(st.program[st.pc + 1], st.registers, st.data_memory)
         IN  IF r.err # "none" THEN [ret |-> r.err, st |-> [st EXCEPT !.pc = st.pc + 1]]
             ELSE [ret |-> "True",
                   st |-> [st EXCEPT !.registers = r.registers,
                                     !.data_memory = r.data_memory,
                                     !.pc = st.pc + 1]]

\* VirtualMachine.execute_step on machine st: the value returned (or the exception
\* raised) and the machine afterwards
\* execute_step removing the executed instruction from self.program
execute_step_ConsumesProgram(st) ==
    IF st.pc >= Len(st.program) THEN [ret |-> "False", st |-> st]
    ELSE LET r == execute_command(st.program[st.pc + 1], st.registers, st.data_memory)
         IN  IF r.err # "none" THEN [ret |-> r.err, st |-> st]
             ELSE [ret |-> "True",
                   st |-> [st EXCEPT !.registers = r.registers,
                                     !.data_memory = r.data_memory,
                                     !.program = Tail(st.program),
                                     !.pc = st.pc + 1]]

\* execute_step without self.pc += 1
execute_step_NoAdvance(st) ==
    IF st.pc >= Len(st.program) THEN [ret |-> "False", st |-> st]
    ELSE LET r == execute_command(st.program[st.pc + 1], st.registers, st.data_memory)
         IN  IF r.err # "none" THEN [ret |-> r.err, st |-> st]
             ELSE [ret |-> "True",
                   st |-> [st EXCEPT !.registers = r.registers,
                                     !.data_memory = r.data_memory]]

execute_step(st) ==
    IF st.pc >= Len(st.program) THEN [ret |-> "False", st |-> st]
    ELSE LET cmd == st.program[st.pc + 1]
             r == execute_command(cmd, st.registers, st.data_memory)
         IN  IF r.err # "none" THEN [ret |-> r.err, st |-> st]
             ELSE [ret |-> "True",
                   st |-> [st EXCEPT !.registers = r.registers,
                                     !.data_memory = r.data_memory,
                                     !.pc = st.pc + 1]]

RECURSIVE RunLoop(_, _, _)
\* the while loop of run: execute_step() is called before steps < max_steps is tested
RunLoop(st, steps, max_steps) ==
    LET r == execute_step(st) IN
    IF r.ret = "True" THEN
        IF steps < max_steps THEN RunLoop(r.st, steps + 1, max_steps)
        ELSE [ret |-> "None", st |-> r.st]
    ELSE IF r.ret = "False" THEN [ret |-> "None", st |-> r.st]
    ELSE r

\* VirtualMachine.run
run(st, max_steps) == RunLoop(st, 0, max_steps)

\* dump_memory with range(start_addr, min(end_addr, len(self.data_memory))): the
\* end address taken as exclusive
dump_memory_EndExclusive(mem, start_addr, end_addr) ==
    LET stop == Min(end_addr, MemLen(mem))
        n == IF stop > start_addr THEN stop - start_addr ELSE 0
    IN  IF \E k \in 0..(n - 1) : ~IndexOk(MemLen(mem), start_addr + k)
        THEN [err |-> "IndexError", dump |-> <<>>]
        ELSE [err |-> "none",
              dump |-> [k \in 1..n |-> <<start_addr + k - 1,
                                         mem[Norm(MemLen(mem), start_addr + k - 1)]>>]]

\* VirtualMachine.dump_memory
dump_memory(mem, start_addr, end_addr) ==
    LET stop == Min(end_addr + 1, MemLen(mem))
        n == IF stop > start_addr THEN stop - start_addr ELSE 0
    IN  IF \E k \in 0..(n - 1) : ~IndexOk(MemLen(mem), start_addr + k)
        THEN [err |-> "IndexError", dump |-> <<>>]
        ELSE [err |-> "none",
              dump |-> [k \in 1..n |-> <<start_addr + k - 1,
                                         mem[Norm(MemLen(mem), start_addr + k - 1)]>>]]

----------------------------------------------------------------------------
(* Inputs *)

\* the instructions programs are assembled from (all operands in range)
Instrs ==
    { Command(LOAD_CONST, 1, 2, <<>>),
      Command(LOAD_CONST, 1, 70000, <<>>),
      Command(READ_MEM, 1, 1, <<>>),
      Command(WRITE_MEM, 1, 1, <<>>),
      Command(SHR, 1, 2, <<>>) }

\* the instruction sequences programs are made of
Sources == UNION { [1..n -> Instrs] : n \in 0..MaxProgLen }

\* the instructions handed to the assembler (all operands in range)
AsmInstrs ==
    Instrs \cup { Command(LOAD_CONST, 31, 1048575, <<>>),
                  Command(READ_MEM, 2, 3, <<>>),
                  Command(WRITE_MEM, 31, 15, <<>>),
                  Command(SHR, 0, 500, <<>>),
                  Command(SHR, 31, 1073741823, <<>>) }

\* the instruction sequences handed to the assembler
AsmSources == UNION { [1..n -> AsmInstrs] : n \in 0..MaxProgLen }

RECURSIVE Assemble(_)
\* the program binary: the to_binary records of the sequence, concatenated
Assemble(seq) ==
    IF Len(seq) = 0 THEN [err |-> "none", bytes |-> <<>>]
    ELSE LET h == to_binary(Head(seq))
             t == Assemble(Tail(seq))
         IN  IF h.err # "none" THEN [err |-> h.err, bytes |-> <<>>]
             ELSE IF t.err # "none" THEN t
             ELSE [err |-> "none", bytes |-> h.bytes \o t.bytes]

RECURSIVE FullRecords(_)
\* a binary in which every record fills its opcode's width
FullRecords(seq) ==
    IF Len(seq) = 0 THEN <<>>
    ELSE Ljust(to_binary(Head(seq)).bytes, CmdLen(Head(seq).opcode)) \o FullRecords(Tail(seq))

\* each instruction sequence with its full-record binary, computed once
RecordPairs == { <<s, FullRecords(s)>> : s \in Sources }

\* a record start whose low 7 bits are no opcode code
BadRecord == <<99>>

\* a LOAD_CONST record for register 1 with every constant bit and every bit above
\* the constant set
MaxConstRecord == <<172, 240, 255, 255, 255>>

\* the byte strings handed to load_program
Binaries ==
    { FullRecords(s) : s \in Sources }
    \cup { MaxConstRecord }
    \cup { FullRecords(s) \o BadRecord : s \in { t \in Sources : Len(t) < MaxProgLen } }

\* load_program on each of them, computed once
LoadTable == [b \in Binaries |-> load_program(b)]

\* byte strings that end inside a record: the full records of a sequence, then the
\* first k bytes of one more record, k below the record's width
TruncCases ==
    { t \in { [prefix |-> s, last |-> c, k |-> k,
               binary |-> FullRecords(s) \o Take(FullRecords(<<c>>), k)] :
                  s \in { u \in Sources : Len(u) < MaxProgLen },
                  c \in AsmInstrs,
                  k \in 1..5 } :
          t.k < CmdLen(t.last.opcode) }

\* the truncated byte strings handed to load_program
TruncBinaries == { t.binary : t \in TruncCases }

\* load_program on each of them, computed once
TruncTable == [b \in TruncBinaries |-> load_program(b)]

\* first bytes of raw input: the four opcode codes, the same with the top bit set,
\* and bytes whose low 7 bits are no opcode code
FirstBytes == {44, 120, 34, 37, 172, 248, 162, 165, 0, 36, 45, 99, 127, 227, 255}

\* the bytes raw input is filled with after the first byte
FillBytes == {0, 1, 165, 255}

\* raw byte strings: the empty one, and a first byte followed by up to MaxTail bytes
RawInputs ==
    {<<>>} \cup { <<f>> \o [i \in 1..n |-> v] : f \in FirstBytes, n \in 0..MaxTail, v \in FillBytes }

\* records of full width with every operand bit set
OnesRecords == { <<172, 255, 255, 255, 255>>, <<248, 255, 255>>, <<162, 255, 255>>,
                 <<165, 255, 255, 255, 255, 255>> }

\* raw byte strings, alone and after a record with every operand bit set
RawStreams == RawInputs \cup { a \o b : a \in OnesRecords, b \in RawInputs }

\* the commands handed to execute_command directly: in range, with a register index
\* or an address operand outside its array, and with negative operands
DirectCmds ==
    { Command(LOAD_CONST, 1, 2, <<>>), Command(LOAD_CONST, 1, 70000, <<>>),
      Command(LOAD_CONST, 1, -1, <<>>), Command(LOAD_CONST, -1, 2, <<>>),
      Command(LOAD_CONST, 32, 2, <<>>),
      Command(READ_MEM, 1, 2, <<>>), Command(READ_MEM, -33, 2, <<>>),
      Command(WRITE_MEM, 1, 1, <<>>), Command(WRITE_MEM, 1, 32, <<>>),
      Command(SHR, 1, 2, <<>>), Command(SHR, 1, -1, <<>>), Command(SHR, 1, 70000, <<>>) }

\* in-range commands executed one after another: constants, a read and writes
\* through register 1, shifts of register 0 by the cell at address 2, and a
\* shift naming an address beyond the memory
ExecCmds ==
    { Command(LOAD_CONST, 0, 255, <<>>), Command(LOAD_CONST, 1, 2, <<>>),
      Command(LOAD_CONST, 1, 70000, <<>>),
      Command(READ_MEM, 1, 0, <<>>),
      Command(WRITE_MEM, 1, 1, <<>>), Command(WRITE_MEM, 0, 1, <<>>),
      Command(SHR, 0, 2, <<>>), Command(SHR, 0, 70000, <<>>) }

\* the addresses handed to dump_memory
DumpAddrs == (0 - MemSize - 1)..(MemSize + 2)

\* the memory contents dump_memory is applied to
DumpMemories == [0..(MemSize - 1) -> {0, 2}]

----------------------------------------------------------------------------
(* The machine as a state machine *)

State == [registers |-> registers, data_memory |-> data_memory, program |-> program, pc |-> pc]

Call(op, binary, max_steps, cmd, start_addr, end_addr, ret, dump) ==
    [op |-> op, binary_data |-> binary, max_steps |-> max_steps, cmd |-> cmd,
     start_addr |-> start_addr, end_addr |-> end_addr, ret |-> ret, dump |-> dump]

NoCall == Call("__init__", <<>>, 0, NoCmd, 0, 0, "None", <<>>)

Pending == [err |-> "pending"]

CodecIdle ==
    /\ source = <<>>
    /\ assembled = Pending
    /\ cmdIn = NoCmd
    /\ binOut = Pending
    /\ binIn = <<>>
    /\ cmdOut = Pending

Init ==
    /\ registers = NewMachine.registers
    /\ data_memory = NewMachine.data_memory
    /\ program = NewMachine.program
    /\ pc = NewMachine.pc
    /\ lastCall = NoCall
    /\ CodecIdle

\* load_program that also rewinds pc
LoadProgram_ResetsPc ==
    \E b \in Binaries :
        LET r == LoadTable[b] IN
        /\ program' = r.program
        /\ pc' = 0
        /\ lastCall' = Call("load_program", b, 0, NoCmd, 0, 0,
                            IF r.err = "none" THEN "None" ELSE r.err, <<>>)
        /\ UNCHANGED <<registers, data_memory, codecVars>>

\* load_program without self.program.clear()
LoadProgram_Appends ==
    \E b \in Binaries :
        LET r == LoadTable[b] IN
        /\ program' = program \o r.program
        /\ lastCall' = Call("load_program", b, 0, NoCmd, 0, 0,
                            IF r.err = "none" THEN "None" ELSE r.err, <<>>)
        /\ UNCHANGED <<registers, data_memory, pc, codecVars>>

LoadProgram ==
    \E b \in Binaries :
        LET r == LoadTable[b] IN
        /\ program' = r.program
        /\ lastCall' = Call("load_program", b, 0, NoCmd, 0, 0,
                            IF r.err = "none" THEN "None" ELSE r.err, <<>>)
        /\ UNCHANGED <<registers, data_memory, pc, codecVars>>

LoadTruncated ==
    \E b \in TruncBinaries :
        LET r == TruncTable[b] IN
        /\ program' = r.program
        /\ lastCall' = Call("load_program", b, 0, NoCmd, 0, 0,
                            IF r.err = "none" THEN "None" ELSE r.err, <<>>)
        /\ UNCHANGED <<registers, data_memory, pc, codecVars>>

ExecuteStep ==
    LET r == execute_step(State) IN
    /\ registers' = r.st.registers
    /\ data_memory' = r.st.data_memory
    /\ program' = r.st.program
    /\ pc' = r.st.pc
    /\ lastCall' = Call("execute_step", <<>>, 0, NoCmd, 0, 0, r.ret, <<>>)
    /\ UNCHANGED codecVars

Run ==
    \E max_steps \in 0..MaxSteps :
        LET r == run(State, max_steps) IN
        /\ registers' = r.st.registers
        /\ data_memory' = r.st.data_memory
        /\ program' = r.st.program
        /\ pc' = r.st.pc
        /\ lastCall' = Call("run", <<>>, max_steps, NoCmd, 0, 0, r.ret, <<>>)
        /\ UNCHANGED codecVars

Reset ==
    LET st == reset(State) IN
    /\ registers' = st.registers
    /\ data_memory' = st.data_memory
    /\ program' = st.program
    /\ pc' = st.pc
    /\ lastCall' = Call("reset", <<>>, 0, NoCmd, 0, 0, "None", <<>>)
    /\ UNCHANGED codecVars

ExecuteCommand ==
    \E cmd \in DirectCmds :
        LET r == execute_command(cmd, registers, data_memory) IN
        /\ registers' = r.registers
        /\ data_memory' = r.data_memory
        /\ lastCall' = Call("execute_command", <<>>, 0, cmd, 0, 0,
                            IF r.err = "none" THEN "None" ELSE r.err, <<>>)
        /\ UNCHANGED <<program, pc, codecVars>>

ExecuteInRange ==
    \E cmd \in ExecCmds :
        LET r == execute_command(cmd, registers, data_memory) IN
        /\ registers' = r.registers
        /\ data_memory' = r.data_memory
        /\ lastCall' = Call("execute_command", <<>>, 0, cmd, 0, 0,
                            IF r.err = "none" THEN "None" ELSE r.err, <<>>)
        /\ UNCHANGED <<program, pc, codecVars>>

DumpMemory ==
    \E start_addr \in DumpAddrs, end_addr \in DumpAddrs :
        LET r == dump_memory(data_memory, start_addr, end_addr) IN
        /\ lastCall' = Call("dump_memory", <<>>, 0, NoCmd, start_addr, end_addr,
                            IF r.err = "none" THEN "None" ELSE r.err, r.dump)
        /\ UNCHANGED <<registers, data_memory, program, pc, codecVars>>

Next == LoadProgram \/ ExecuteStep \/ Run \/ Reset

\* load_program, execute_step, run and reset called in any order
Spec == Init /\ [][Next]_vars

NextCmd == ExecuteCommand \/ Reset

\* the machine driven through execute_command with commands built by the caller
SpecCmd == Init /\ [][NextCmd]_vars

NextExec == ExecuteInRange \/ Reset

\* the machine executing in-range instructions one after another
SpecExec == Init /\ [][NextExec]_vars

InitDump ==
    /\ registers = NewMachine.registers
    /\ data_memory \in DumpMemories
    /\ program = NewMachine.program
    /\ pc = NewMachine.pc
    /\ lastCall = NoCall
    /\ CodecIdle

NextDump == DumpMemory

\* dump_memory applied to a memory
SpecDump == InitDump /\ [][NextDump]_vars

NextLoader == LoadProgram \/ LoadTruncated

\* load_program applied to whole and to truncated byte strings, in any order
SpecLoader == Init /\ [][NextLoader]_vars

----------------------------------------------------------------------------
(* The assembler-to-loader pipeline as a state machine *)

InitPipeline ==
    /\ registers = NewMachine.registers
    /\ data_memory = NewMachine.data_memory
    /\ program = NewMachine.program
    /\ pc = NewMachine.pc
    /\ lastCall = NoCall
    /\ source \in AsmSources
    /\ assembled = Pending
    /\ cmdIn = NoCmd
    /\ binOut = Pending
    /\ binIn = <<>>
    /\ cmdOut = Pending

AssembleSource ==
    /\ assembled.err = "pending"
    /\ assembled' = Assemble(source)
    /\ UNCHANGED <<source, cmdIn, binOut, binIn, cmdOut, vmVars>>

LoadAssembled ==
    /\ assembled.err = "none"
    /\ LET r == load_program(assembled.bytes) IN
       /\ program' = r.program
       /\ lastCall' = Call("load_program", assembled.bytes, 0, NoCmd, 0, 0,
                           IF r.err = "none" THEN "None" ELSE r.err, <<>>)
    /\ UNCHANGED <<registers, data_memory, pc, codecVars>>

NextPipeline == AssembleSource \/ LoadAssembled

\* load_program applied to the concatenated to_binary records of a sequence
SpecPipeline == InitPipeline /\ [][NextPipeline]_vars

----------------------------------------------------------------------------
(* The codec as a state machine *)

\* operand values around the field widths (5, 24 and 30 bits) and around the
\* largest values struct.pack accepts
OperandValues ==
    {0, 1, 15, 16, 31, 32, 1048575, 1048576, 16777215, 16777216, 1073741823, 1073741824}

CodecInputs == { Command(op, a, b, <<>>) : op \in Opcodes, a \in OperandValues, b \in OperandValues }

InitCodec ==
    /\ registers = NewMachine.registers
    /\ data_memory = NewMachine.data_memory
    /\ program = NewMachine.program
    /\ pc = NewMachine.pc
    /\ lastCall = NoCall
    /\ source = <<>>
    /\ assembled = Pending
    /\ cmdIn \in CodecInputs
    /\ binOut = Pending
    /\ binIn = <<>>
    /\ cmdOut = Pending

ToBinary ==
    /\ binOut.err = "pending"
    /\ binOut' = to_binary(cmdIn)
    /\ UNCHANGED <<source, assembled, cmdIn, binIn, cmdOut, vmVars>>

FromBinary ==
    /\ binOut.err = "none"
    /\ cmdOut.err = "pending"
    /\ binIn' = binOut.bytes
    /\ cmdOut' = from_binary(binOut.bytes)
    /\ UNCHANGED <<source, assembled, cmdIn, binOut, vmVars>>

NextCodec == ToBinary \/ FromBinary

\* from_binary applied to the result of to_binary
SpecCodec == InitCodec /\ [][NextCodec]_vars

InitDecode ==
    /\ registers = NewMachine.registers
    /\ data_memory = NewMachine.data_memory
    /\ program = NewMachine.program
    /\ pc = NewMachine.pc
    /\ lastCall = NoCall
    /\ source = <<>>
    /\ assembled = Pending
    /\ cmdIn = NoCmd
    /\ binOut = Pending
    /\ binIn \in RawStreams
    /\ cmdOut = Pending

DecodeRaw ==
    /\ cmdOut.err = "pending"
    /\ cmdOut' = from_binary(binIn)
    /\ UNCHANGED <<source, assembled, cmdIn, binOut, binIn, vmVars>>

LoadRaw ==
    /\ lastCall.op = "__init__"
    /\ LET r == load_program(binIn) IN
       /\ program' = r.program
       /\ lastCall' = Call("load_program", binIn, 0, NoCmd, 0, 0,
                           IF r.err = "none" THEN "None" ELSE r.err, <<>>)
    /\ UNCHANGED <<registers, data_memory, pc, codecVars>>

NextDecode == DecodeRaw \/ LoadRaw

\* from_binary and load_program applied to a raw byte string
SpecDecode == InitDecode /\ [][NextDecode]_vars

----------------------------------------------------------------------------
(* Properties of the codec *)

\* the operand ranges of an opcode: register indices 0..31, the LOAD_CONST constant
\* 0..2^24-1, the SHR address 0..2^30-1
InRange(cmd) ==
    /\ cmd.args[1] \in 0..31
    /\ cmd.opcode = LOAD_CONST => (0 <= cmd.args[2] /\ cmd.args[2] < 2^24)
    /\ cmd.opcode \in {READ_MEM, WRITE_MEM} => cmd.args[2] \in 0..31
    /\ cmd.opcode = SHR => (0 <= cmd.args[2] /\ cmd.args[2] < 2^30)

\* two instruction sequences with the same opcodes and operands in the same order
SameInstrs(p, q) ==
    /\ Len(p) = Len(q)
    /\ \A i \in 1..Len(p) : p[i].opcode = q[i].opcode /\ p[i].args = q[i].args

\* C1: for every opcode and every in-range operand tuple, to_binary succeeds and
\* from_binary of its result succeeds and yields the same opcode and operands.
C1_RoundTrip ==
    (InRange(cmdIn) /\ binOut.err # "pending") =>
        /\ binOut.err = "none"
        /\ cmdOut.err # "pending" =>
              /\ cmdOut.err = "none"
              /\ cmdOut.cmd.opcode = cmdIn.opcode
              /\ cmdOut.cmd.args = cmdIn.args

\* C2: to_binary always returns exactly the opcode's declared byte count (5 for
\* LOAD_CONST, 3 for READ_MEM and WRITE_MEM, 6 for SHR), whatever the operands.
C2_FixedWidth ==
    binOut.err # "pending" =>
        /\ binOut.err = "none"
        /\ Len(binOut.bytes) = CmdLen(cmdIn.opcode)

\* C3: load_program applied to the concatenated to_binary records of a sequence of
\* in-range instructions succeeds and yields a program of the same length with the
\* same opcodes and operands in the same order.
C3_EncodeThenLoad ==
    (lastCall.op = "load_program" /\ assembled.err = "none"
        /\ lastCall.binary_data = assembled.bytes /\ \A i \in 1..Len(source) : InRange(source[i])) =>
        /\ lastCall.ret = "None"
        /\ SameInstrs(program, source)

----------------------------------------------------------------------------
(* Properties of the machine *)

\* C4: from pc = 0 with a program of N instructions none of which fails,
\* run(max_steps) executes exactly min(N, max_steps) instructions and leaves
\* pc = min(N, max_steps); it never executes more than max_steps instructions.
C4_RunStepBound ==
    [][(lastCall'.op = "run" /\ lastCall'.ret = "None" /\ pc = 0) =>
           pc' = Min(Len(program), lastCall'.max_steps)]_vars

\* C5 (as stated): in every state reachable by load_program, execute_step, run and
\* reset calls, 0 <= pc <= len(program).
C5_PcWithinProgram == 0 <= pc /\ pc <= Len(program)

\* C5 (amended): pc is never negative, and execute_step, run and reset keep
\* pc <= len(program) once it holds; only load_program, which leaves pc as it
\* is, can leave pc beyond the end of the program it loaded.
C5_PcKeptWithinProgram ==
    /\ [](0 <= pc)
    /\ [][(lastCall'.op # "load_program" /\ pc <= Len(program)) => pc' <= Len(program')]_vars

C5_Witness ==
    /\ lastCall.op \in {"execute_step", "run"}
    /\ lastCall.ret \in {"True", "None"}
    /\ 0 < pc
    /\ pc = Len(program)

\* C6: when load_program meets an unrecognized opcode code at a record start, also
\* after valid records, it fails and the machine is not left holding a program
\* made of the records decoded before the bad one.
C6_LoadAllOrNothing ==
    \A s \in Sources :
        (lastCall.op = "load_program" /\ lastCall.binary_data = FullRecords(s) \o BadRecord) =>
            /\ lastCall.ret = "ValueError"
            /\ Len(s) > 0 => ~SameInstrs(program, s)

\* C7: whenever pc >= len(program), execute_step returns False and leaves pc, the
\* registers, the memory and the program unchanged, each time it is called.
C7_HaltedStepNoEffect ==
    [][(lastCall'.op = "execute_step" /\ pc >= Len(program)) =>
           /\ lastCall'.ret = "False"
           /\ UNCHANGED <<pc, registers, data_memory, program>>]_vars

C7_Witness ==
    /\ lastCall.op = "execute_step"
    /\ lastCall.ret = "False"
    /\ Len(program) > 0
    /\ pc >= Len(program)
    /\ registers[1] # 0

\* whether executing cmd on (regs, mem) names a register index outside 0..31 or
\* uses a memory address outside 0..len(mem)-1
NamesOutOfBounds(cmd, regs, mem) ==
    LET a == cmd.args[1]
        b == cmd.args[2]
        regOk(r) == 0 <= r /\ r < NumRegs
        memOk(m) == 0 <= m /\ m < MemLen(mem)
    IN  IF cmd.opcode = LOAD_CONST THEN ~regOk(a)
        ELSE IF cmd.opcode = READ_MEM THEN ~regOk(a) \/ ~regOk(b) \/ ~memOk(regs[a])
        ELSE IF cmd.opcode = WRITE_MEM THEN ~regOk(a) \/ ~regOk(b) \/ ~memOk(regs[b])
        ELSE IF cmd.opcode = SHR THEN ~regOk(a) \/ ~memOk(b)
        ELSE FALSE

\* C8: an instruction that names a register index outside 0..31 or a memory
\* address outside 0..len(data_memory)-1 (negative ones included) fails with an
\* out-of-bounds error and reads or writes no cell.
C8_BoundsChecked ==
    [][(lastCall'.op = "execute_command"
          /\ NamesOutOfBounds(lastCall'.cmd, registers, data_memory)) =>
           /\ lastCall'.ret = "IndexError"
           /\ UNCHANGED <<registers, data_memory>>]_vars

RECURSIVE StepsFrom(_, _)
\* the machine after n successful execute_step calls from st
StepsFrom(st, n) == IF n = 0 THEN st ELSE StepsFrom(execute_step(st).st, n - 1)

\* C9: a failing execute_step leaves pc, the registers, the memory and the program
\* as they were; a run that fails at instruction k leaves exactly the effects of
\* the instructions before k, with pc at the failing instruction.
C9_FailedStepKeepsState ==
    [][/\ (lastCall'.op = "execute_step" /\ lastCall'.ret \notin {"True", "False"}) =>
            UNCHANGED <<pc, registers, data_memory, program>>
       /\ (lastCall'.op = "run" /\ lastCall'.ret # "None") =>
            /\ pc' >= pc
            /\ pc' < Len(program')
            /\ State' = StepsFrom(State, pc' - pc)
            /\ execute_step(State').ret = lastCall'.ret
            /\ execute_step(State').st = State']_vars

C9_Witness ==
    /\ lastCall.op = "run"
    /\ lastCall.ret = "IndexError"
    /\ pc = 1
    /\ pc < Len(program)
    /\ registers[1] = 70000

----------------------------------------------------------------------------
(* Properties of dump_memory *)

Max(a, b) == IF a >= b THEN a ELSE b

\* the pairs (a, data_memory[a]) for a in [start_addr, min(end_addr, M-1)], ascending
ClampedPairs(mem, start_addr, end_addr) ==
    LET n == Max(0, Min(end_addr, MemLen(mem) - 1) - start_addr + 1) IN
    [k \in 1..n |-> <<start_addr + k - 1, mem[Norm(MemLen(mem), start_addr + k - 1)]>>]

\* C10 (as stated): dump_memory(start, end) never fails and returns, in ascending
\* order, one pair (a, data_memory[a]) per address a in [start, min(end, M-1)];
\* when end >= M it returns exactly M - start entries.
C10_DumpClamps ==
    lastCall.op = "dump_memory" =>
        /\ lastCall.ret = "None"
        /\ lastCall.dump = ClampedPairs(data_memory, lastCall.start_addr, lastCall.end_addr)
        /\ lastCall.end_addr >= MemLen(data_memory) =>
              Len(lastCall.dump) = MemLen(data_memory) - lastCall.start_addr

\* C10 (amended): for start >= 0 dump_memory never fails and returns, in ascending
\* order, one pair (a, data_memory[a]) per address a in [start, min(end, M-1)];
\* when end >= M it returns M - start entries if start <= M and none if start > M.
C10_DumpClampsFromZero ==
    (lastCall.op = "dump_memory" /\ lastCall.start_addr >= 0) =>
        /\ lastCall.ret = "None"
        /\ lastCall.dump = ClampedPairs(data_memory, lastCall.start_addr, lastCall.end_addr)
        /\ \A k \in 1..Len(lastCall.dump) :
              /\ lastCall.dump[k][1] = lastCall.start_addr + k - 1
              /\ lastCall.dump[k][2] = data_memory[lastCall.dump[k][1]]
        /\ lastCall.end_addr >= MemLen(data_memory) =>
              Len(lastCall.dump) = Max(0, MemLen(data_memory) - lastCall.start_addr)

C10_Witness ==
    /\ lastCall.op = "dump_memory"
    /\ lastCall.start_addr = 1
    /\ lastCall.end_addr >= MemLen(data_memory)
    /\ Len(lastCall.dump) = MemLen(data_memory) - 1
    /\ data_memory[1] # 0

----------------------------------------------------------------------------
(* Frame properties of reset, load_program and execution *)

\* C11: reset, called in any reachable state, sets each of the 32 registers, each
\* memory cell and pc to 0, and leaves the program and the memory size unchanged.
C11_ResetZeroes ==
    [][lastCall'.op = "reset" =>
           /\ DOMAIN registers' = 0..31
           /\ \A r \in 0..31 : registers'[r] = 0
           /\ DOMAIN data_memory' = DOMAIN data_memory
           /\ \A a \in DOMAIN data_memory' : data_memory'[a] = 0
           /\ pc' = 0
           /\ program' = program]_vars

C11_Witness ==
    /\ lastCall.op = "reset"
    /\ Len(program) = 2
    /\ pc = 0
    /\ \A a \in DOMAIN data_memory : data_memory[a] = 0

\* C12: a successful load_program, called in any reachable state, leaves pc, each
\* register and each memory cell unchanged; it does not reset pc.
C12_LoadKeepsMachineState ==
    [][(lastCall'.op = "load_program" /\ lastCall'.ret = "None") =>
           /\ pc' = pc
           /\ \A r \in 0..31 : registers'[r] = registers[r]
           /\ DOMAIN data_memory' = DOMAIN data_memory
           /\ \A a \in DOMAIN data_memory : data_memory'[a] = data_memory[a]]_vars

C12_Witness ==
    /\ lastCall.op = "load_program"
    /\ lastCall.ret = "None"
    /\ Len(program) = 1
    /\ pc = 2
    /\ registers[1] = 2
    /\ data_memory[2] = 2

\* C13: after a successful load_program the program is exactly the records of the
\* byte stream in stream order, with nothing of an earlier program left; an empty
\* byte stream gives an empty program, also after a non-empty one was loaded.
C13_LoadReplaces ==
    /\ (lastCall.op = "load_program" /\ lastCall.binary_data = <<>>) =>
           (lastCall.ret = "None" /\ program = <<>>)
    /\ lastCall.op = "load_program" =>
           \A sb \in RecordPairs :
               lastCall.binary_data = sb[2] =>
                   (lastCall.ret = "None" /\ SameInstrs(program, sb[1]))

C13_Witness ==
    /\ lastCall.op = "load_program"
    /\ lastCall.binary_data = <<>>
    /\ lastCall.ret = "None"
    /\ program = <<>>
    /\ pc = 2

\* C14: when the byte stream ends inside a record whose first byte carries a known
\* opcode code, load_program succeeds; after the instructions of the full records
\* it appends, as the last instruction, the decode of the partial record padded
\* with zero bytes to the opcode's width, and nothing after it.
C14_TruncatedRecordPadded ==
    lastCall.op = "load_program" =>
        \A t \in TruncCases :
            lastCall.binary_data = t.binary =>
                LET n == Len(t.prefix)
                    partial == Take(FullRecords(<<t.last>>), t.k)
                    padded == partial \o [i \in 1..(CmdLen(t.last.opcode) - t.k) |-> 0]
                IN  /\ lastCall.ret = "None"
                    /\ Len(program) = n + 1
                    /\ SameInstrs(SubSeq(program, 1, n), t.prefix)
                    /\ program[n + 1].opcode = t.last.opcode
                    /\ Len(padded) = CmdLen(t.last.opcode)
                    /\ program[n + 1].args = from_binary(padded).cmd.args

C14_Witness ==
    /\ lastCall.op = "load_program"
    /\ lastCall.binary_data = <<172, 32, 0, 0, 0, 165, 255>>
    /\ lastCall.ret = "None"
    /\ Len(program) = 2
    /\ program[2].opcode = SHR
    /\ program[2].args = <<31, 15>>

\* C16: execute_step and run leave the program (its length, and the opcode and
\* operands of each instruction) as it was, whatever WRITE_MEM stores into memory.
C16_ExecutionKeepsProgram ==
    [][lastCall'.op \in {"execute_step", "run"} =>
           /\ Len(program') = Len(program)
           /\ \A i \in 1..Len(program) :
                 /\ program'[i].opcode = program[i].opcode
                 /\ program'[i].args = program[i].args]_vars

C16_Witness ==
    /\ lastCall.op = "run"
    /\ lastCall.ret = "None"
    /\ pc = 2
    /\ Len(program) = 2
    /\ program[2].opcode = WRITE_MEM
    /\ data_memory[2] = 2

RECURSIVE AllSucceed(_, _)
\* whether the next n execute_step calls from st all return True
AllSucceed(st, n) ==
    n = 0 \/ (execute_step(st).ret = "True" /\ AllSucceed(execute_step(st).st, n - 1))

\* C17: a successful execute_step raises pc by exactly 1 and no execute_step lowers
\* it; from pc <= len(program), when no instruction fails, len(program) - pc
\* steps succeed, the last of them reaches pc = len(program), and the step after
\* them returns False and changes nothing; run makes at most max_steps + 1
\* successful steps and never steps past the end of the program.
C17_ProgressAndTermination ==
    /\ [](pc <= Len(program) =>
            LET n == Len(program) - pc
                end == StepsFrom(State, n)
            IN  AllSucceed(State, n) =>
                    /\ \A j \in 0..n : StepsFrom(State, j).pc = pc + j
                    /\ end.pc = Len(program)
                    /\ execute_step(end).ret = "False"
                    /\ execute_step(end).st = end)
    /\ [][lastCall'.op = "execute_step" =>
             /\ pc' >= pc
             /\ lastCall'.ret = "True" => pc' = pc + 1
             /\ lastCall'.ret # "True" => pc' = pc]_vars
    /\ [][lastCall'.op = "run" =>
             /\ pc' >= pc
             /\ pc' - pc <= lastCall'.max_steps + 1
             /\ pc <= Len(program) => pc' <= Len(program)
             /\ lastCall'.ret = "None" =>
                   (pc' = Len(program) \/ pc' - pc = lastCall'.max_steps + 1 \/ pc >= Len(program))]_vars

C17_Witness ==
    /\ lastCall.op = "execute_step"
    /\ lastCall.ret = "True"
    /\ Len(program) = 2
    /\ pc = Len(program)
    /\ registers[1] = 70000

\* floor(v / 2^s) for v in 0..2^31-1 and s >= 0
FloorDivPow2(v, s) == IF s >= 31 THEN 0 ELSE v \div (2^s)

\* C18: executing an in-bounds instruction gives the reference next state:
\* LOAD_CONST(reg, const) sets registers[reg] = const; READ_MEM(src, dst) sets
\* registers[dst] = data_memory[registers[src]]; WRITE_MEM(src, addrReg) sets
\* data_memory[registers[addrReg]] = registers[src]; SHR(reg, addr) sets
\* registers[reg] = floor(registers[reg] / 2^data_memory[addr]), so 255 shifted by
\* 2 gives 63; each other register and memory cell is unchanged.
C18_InstructionSemantics ==
    [][(lastCall'.op = "execute_command"
          /\ ~NamesOutOfBounds(lastCall'.cmd, registers, data_memory)) =>
           LET cmd == lastCall'.cmd
               x == cmd.args[1]
               y == cmd.args[2]
           IN  /\ lastCall'.ret = "None"
               /\ cmd.opcode = 44 =>
                     /\ registers' = [registers EXCEPT ![x] = y]
                     /\ data_memory' = data_memory
               /\ cmd.opcode = 120 =>
                     /\ registers' = [registers EXCEPT ![y] = data_memory[registers[x]]]
                     /\ data_memory' = data_memory
               /\ cmd.opcode = 34 =>
                     /\ data_memory' = [data_memory EXCEPT ![registers[y]] = registers[x]]
                     /\ registers' = registers
               /\ cmd.opcode = 37 =>
                     /\ registers' = [registers EXCEPT
                                         ![x] = FloorDivPow2(registers[x], data_memory[y])]
                     /\ data_memory' = data_memory
                     /\ (registers[x] = 255 /\ data_memory[y] = 2) => registers'[x] = 63]_vars

C18_Witness ==
    /\ lastCall.op = "execute_command"
    /\ lastCall.cmd.opcode = SHR
    /\ lastCall.cmd.args = <<0, 2>>
    /\ lastCall.ret = "None"
    /\ data_memory[2] = 2
    /\ registers[0] = 63
    /\ registers[1] = 2

\* C20: from a new or reset machine, under any sequence of load_program,
\* execute_step, run and reset, each register and each memory cell holds an
\* integer in 0..2^24-1; none is ever negative.
C20_ValuesInRange ==
    /\ \A r \in DOMAIN registers : 0 <= registers[r] /\ registers[r] <= 16777215
    /\ \A a \in DOMAIN data_memory : 0 <= data_memory[a] /\ data_memory[a] <= 16777215

C20_Witness ==
    /\ lastCall.op = "execute_step"
    /\ lastCall.ret = "True"
    /\ pc = 1
    /\ program[1].args = <<1, 16777215>>
    /\ registers[1] = 16777215

----------------------------------------------------------------------------
(* Properties of decoding raw bytes *)

\* C15: from_binary raises its decode error exactly when the input is empty or the
\* low 7 bits of its first byte are none of 44, 120, 34, 37; for every other
\* input, of any length, it returns an instruction whose opcode code is those 7 bits.
C15_DecodeFailsExactly ==
    cmdOut.err # "pending" =>
        /\ cmdOut.err \in {"none", "ValueError"}
        /\ (cmdOut.err = "ValueError") <=>
              (Len(binIn) = 0 \/ (binIn[1] % 128) \notin {44, 120, 34, 37})
        /\ cmdOut.err = "none" => cmdOut.cmd.opcode = binIn[1] % 128

C15_Witness ==
    /\ binIn = <<172>>
    /\ cmdOut.err = "none"
    /\ cmdOut.cmd.opcode = 44
    /\ cmdOut.cmd.args = <<1, 0>>

\* an instruction with exactly two operands, each in the range of its field
TwoOperandsInRange(cmd) ==
    /\ cmd.opcode \in {44, 120, 34, 37}
    /\ Len(cmd.args) = 2
    /\ cmd.args[1] \in 0..31
    /\ cmd.opcode = 44 => (0 <= cmd.args[2] /\ cmd.args[2] <= 16777215)
    /\ cmd.opcode \in {120, 34} => cmd.args[2] \in 0..31
    /\ cmd.opcode = 37 => (0 <= cmd.args[2] /\ cmd.args[2] <= 1073741823)

\* C19: every instruction from_binary returns, and every instruction load_program
\* places in the program, has exactly two operands, with each register index in
\* 0..31, the LOAD_CONST constant in 0..2^24-1 and the SHR address in 0..2^30-1.
C19_DecodedOperandsInRange ==
    /\ cmdOut.err = "none" => TwoOperandsInRange(cmdOut.cmd)
    /\ \A i \in 1..Len(program) : TwoOperandsInRange(program[i])

C19_Witness ==
    /\ binIn = <<165, 255, 255, 255, 255, 255, 248, 255, 255>>
    /\ cmdOut.err = "none"
    /\ cmdOut.cmd.args = <<31, 1073741823>>
    /\ lastCall.op = "load_program"
    /\ Len(program) = 2
    /\ program[2].opcode = 120
    /\ program[2].args = <<31, 31>>

====
